---------------------------- MODULE Spec2Model ----------------------------
(***************************************************************************)
(* Model of the technical-indicator and trend-forecasting engine of        *)
(* StockSense-AI (src/prediction.py).                                      *)
(*                                                                         *)
(* A DataFrame is a record [index, cols]: index is the sequence of row     *)
(* labels (dates as day numbers), cols maps a column name to its sequence  *)
(* of cells.  A cell is a float, modelled exactly as an extended number:   *)
(*   [k |-> "num", n, d, c, rn, rd]   the real  n/d + c * sqrt(rn/rd)      *)
(*   [k |-> "nz",  ...]               the float -0.0                       *)
(*   [k |-> "inf", n = +1 or -1, ...] the floats +inf and -inf             *)
(*   [k |-> "nan", ...]               the float NaN                        *)
(* The surd part (c, rn, rd) is only non-zero for the rolling standard     *)
(* deviation and the two Bollinger bands derived from it.                  *)
(***************************************************************************)
EXTENDS Integers, Sequences, FiniteSets, TLC

(***************************************************************************)
(* Bounds of the model.                                                    *)
(***************************************************************************)
MaxLen == 52
MaxHorizon == 6
BasePrice == 100
FirstDay == 3
FixedPoint == 1000
MaxSeriesLen == 5
MaxFills == 2
MaxConcHorizon == 2
Today == 100
ScenarioLen == 200

(***************************************************************************)
(* Program constants.                                                      *)
(***************************************************************************)
MA20Window == 20
MA50Window == 50
RSIWindow == 14
ATRWindow == 14
EMAFast == 12
EMASlow == 26
EMASignal == 9
BandMult == 2
BandMultTimes100 == 196
HorizonDivisor == 10
TestSizeNum == 2
TestSizeDen == 10
ConsistentLags == <<1, 2, 3, 5, 10>>
FallbackRows == 30

(***************************************************************************)
(* Float arithmetic.                                                       *)
(***************************************************************************)
Abs(x) == IF x < 0 THEN -x ELSE x

Sign(x) == IF x > 0 THEN 1 ELSE IF x < 0 THEN -1 ELSE 0

Min2(a, b) == IF a < b THEN a ELSE b

Max2(a, b) == IF a > b THEN a ELSE b

RECURSIVE GCD(_, _)
GCD(a, b) == IF b = 0 THEN a ELSE GCD(b, a % b)

\* Integer square root by Newton's iteration (floor of the real root).
RECURSIVE NewtonSqrt(_, _)
NewtonSqrt(v, x) ==
    LET y == (x + v \div x) \div 2
    IN IF y >= x THEN x ELSE NewtonSqrt(v, y)

ISqrt(v) == IF v <= 0 THEN 0 ELSE NewtonSqrt(v, v)

IsSquare(v) == v >= 0 /\ ISqrt(v) * ISqrt(v) = v

\* The rational n/d (d # 0) in lowest terms with a positive denominator.
Q(n, d) ==
    IF d = 1 THEN [k |-> "num", n |-> n, d |-> 1, c |-> 0, rn |-> 0, rd |-> 1]
    ELSE LET g == GCD(Abs(n), Abs(d))
             s == IF d < 0 THEN -1 ELSE 1
         IN [k |-> "num", n |-> s * (n \div g), d |-> s * (d \div g),
             c |-> 0, rn |-> 0, rd |-> 1]

NaN == [k |-> "nan", n |-> 0, d |-> 1, c |-> 0, rn |-> 0, rd |-> 1]

NegZero == [k |-> "nz", n |-> 0, d |-> 1, c |-> 0, rn |-> 0, rd |-> 1]

Inf(s) == [k |-> "inf", n |-> s, d |-> 1, c |-> 0, rn |-> 0, rd |-> 1]

Zero == Q(0, 1)

IsNaN(x) == x.k = "nan"

IsInf(x) == x.k = "inf"

\* A finite float without a surd part: a rational (-0.0 counts as 0).
IsRat(x) == x.k = "nz" \/ (x.k = "num" /\ x.c = 0)

IsZero(x) == x.k = "nz" \/ (x.k = "num" /\ x.c = 0 /\ x.n = 0)

\* Sign of a rational or infinite float: -1, 0 or 1.
SignOf(x) == IF x.k = "nz" THEN 0 ELSE Sign(x.n)

\* Sign of a zero as IEEE division sees it: -1 for -0.0, +1 for 0.0.
ZeroSign(x) == IF x.k = "nz" THEN -1 ELSE 1

\* -x
FNeg(x) ==
    CASE x.k = "nan" -> NaN
      [] x.k = "inf" -> Inf(-x.n)
      [] x.k = "nz" -> Zero
      [] OTHER -> IF x.n = 0 /\ x.c = 0 THEN NegZero
                  ELSE [x EXCEPT !.n = -x.n, !.c = -x.c]

\* x + y; at most one of the operands carries a surd part.
FAdd(x, y) ==
    CASE x.k = "nan" \/ y.k = "nan" -> NaN
      [] x.k = "inf" /\ y.k = "inf" -> IF x.n = y.n THEN x ELSE NaN
      [] x.k = "inf" -> x
      [] y.k = "inf" -> y
      [] x.k = "nz" /\ y.k = "nz" -> NegZero
      [] x.k = "nz" -> y
      [] y.k = "nz" -> x
      [] OTHER ->
            LET r == Q(x.n * y.d + y.n * x.d, x.d * y.d)
            IN IF x.c # 0 THEN [r EXCEPT !.c = x.c, !.rn = x.rn, !.rd = x.rd]
               ELSE IF y.c # 0 THEN [r EXCEPT !.c = y.c, !.rn = y.rn, !.rd = y.rd]
               ELSE r

FSub(x, y) == FAdd(x, FNeg(y))

\* Whether a zero, rational or infinite float carries a minus sign.
IsNeg(x) == x.k = "nz" \/ x.n < 0

\* x * y for a rational y; x may carry a surd part.
FMul(x, y) ==
    CASE x.k = "nan" \/ y.k = "nan" -> NaN
      [] x.k = "inf" \/ y.k = "inf" ->
            IF IsZero(x) \/ IsZero(y) THEN NaN
            ELSE Inf(SignOf(x) * SignOf(y))
      [] IsZero(x) \/ IsZero(y) ->
            IF IsNeg(x) # IsNeg(y) THEN NegZero ELSE Zero
      [] OTHER ->
            LET r == Q(x.n * y.n, x.d * y.d)
                cc == Q(x.c * y.n, y.d)
            IN IF x.c = 0 THEN r
               ELSE [r EXCEPT !.c = cc.n, !.rn = x.rn, !.rd = x.rd * cc.d * cc.d]

\* x / y for rationals and infinities, with IEEE-754 (numpy) outcomes:
\* 0/0 is NaN and a non-zero x over a zero is an infinity, never an error.
FDiv(x, y) ==
    CASE x.k = "nan" \/ y.k = "nan" -> NaN
      [] x.k = "inf" /\ y.k = "inf" -> NaN
      [] x.k = "inf" ->
            Inf(x.n * (IF IsZero(y) THEN ZeroSign(y) ELSE SignOf(y)))
      [] y.k = "inf" ->
            IF SignOf(x) * y.n < 0 \/ (IsZero(x) /\ ZeroSign(x) * y.n < 0)
            THEN NegZero ELSE Zero
      [] IsZero(y) ->
            IF IsZero(x) THEN NaN ELSE Inf(SignOf(x) * ZeroSign(y))
      [] IsZero(x) ->
            IF ZeroSign(x) * SignOf(y) < 0 THEN NegZero ELSE Zero
      [] OTHER -> Q(x.n * y.d, x.d * y.n)

\* x < y on floats without a surd part; any comparison with NaN is false.
FLess(x, y) ==
    CASE x.k = "nan" \/ y.k = "nan" -> FALSE
      [] x.k = "inf" /\ y.k = "inf" -> x.n < y.n
      [] x.k = "inf" -> x.n < 0
      [] y.k = "inf" -> y.n > 0
      [] OTHER -> x.n * y.d < y.n * x.d

\* x == y on floats: NaN equals nothing, -0.0 equals 0.0.
FEq(x, y) ==
    CASE x.k = "nan" \/ y.k = "nan" -> FALSE
      [] IsZero(x) /\ IsZero(y) -> TRUE
      [] OTHER -> x = y

FLeq(x, y) == FLess(x, y) \/ FEq(x, y)

FAbs(x) == IF FLess(x, Zero) THEN FNeg(x) ELSE IF x.k = "nz" THEN Zero ELSE x

\* sqrt of a non-negative rational: a rational when exact, else a pure surd.
FSqrt(x) ==
    CASE x.k = "nan" -> NaN
      [] x.k = "inf" -> IF x.n > 0 THEN x ELSE NaN
      [] x.k = "nz" -> NegZero
      [] x.n < 0 -> NaN
      [] IsSquare(x.n) /\ IsSquare(x.d) -> Q(ISqrt(x.n), ISqrt(x.d))
      [] OTHER -> [k |-> "num", n |-> 0, d |-> 1, c |-> 1, rn |-> x.n, rd |-> x.d]

(***************************************************************************)
(* pandas Series operations; a Series is a sequence of floats.             *)
(***************************************************************************)
\* Series.shift(k): row i takes the value of row i-k, the first k rows NaN.
Shift(col, k) == [i \in 1..Len(col) |-> IF i <= k THEN NaN ELSE col[i - k]]

\* Series.diff(): col - col.shift()
Diff(col) ==
    [i \in 1..Len(col) |-> FSub(col[i], IF i <= 1 THEN NaN ELSE col[i - 1])]

\* Series.where(cond, 0) with cond = (col > 0) or (col < 0): a NaN cell
\* fails the comparison and is replaced by 0 as well.
WherePositive(col) ==
    [i \in 1..Len(col) |-> IF FLess(Zero, col[i]) THEN col[i] ELSE Zero]

WhereNegative(col) ==
    [i \in 1..Len(col) |-> IF FLess(col[i], Zero) THEN col[i] ELSE Zero]

\* Running sums of the non-NaN cells, and running counts of them: the
\* add/remove bookkeeping of pandas' rolling aggregations.  Rows lo..hi are
\* accumulated on top of base, the upper half of the rows after the lower.
RECURSIVE PrefixSumFrom(_, _, _, _)
PrefixSumFrom(col, lo, hi, base) ==
    IF lo > hi THEN <<>>
    ELSE IF lo = hi
         THEN <<IF IsNaN(col[lo]) THEN base ELSE FAdd(base, col[lo])>>
    ELSE LET mid == (lo + hi) \div 2
             lower == PrefixSumFrom(col, lo, mid, base)
         IN lower \o PrefixSumFrom(col, mid + 1, hi, lower[Len(lower)])

PrefixSum(col, i) == PrefixSumFrom(col, 1, i, Zero)

RECURSIVE PrefixCountFrom(_, _, _, _)
PrefixCountFrom(col, lo, hi, base) ==
    IF lo > hi THEN <<>>
    ELSE IF lo = hi THEN <<IF IsNaN(col[lo]) THEN base ELSE base + 1>>
    ELSE LET mid == (lo + hi) \div 2
             lower == PrefixCountFrom(col, lo, mid, base)
         IN lower \o PrefixCountFrom(col, mid + 1, hi, lower[Len(lower)])

PrefixCount(col, i) == PrefixCountFrom(col, 1, i, 0)

\* The count and the sum of the observations in the window ending at row i.
WindowCount(pc, i, w) == IF i = w THEN pc[i] ELSE pc[i] - pc[i - w]

WindowSum(ps, i, w) == IF i = w THEN ps[i] ELSE FSub(ps[i], ps[i - w])

\* Series.rolling(window=w).mean(): min_periods is w, so a row is NaN until
\* w observations are in its window and whenever the window holds a NaN.
RollingMeanOf(ps, pc, n, w) ==
    [i \in 1..n |->
        IF i < w \/ WindowCount(pc, i, w) < w THEN NaN
        ELSE FDiv(WindowSum(ps, i, w), Q(w, 1))]

RollingMean(col, w) ==
    RollingMeanOf(PrefixSum(col, Len(col)), PrefixCount(col, Len(col)), Len(col), w)

Squares(col) == [i \in 1..Len(col) |-> FMul(col[i], col[i])]

\* Series.rolling(window=w).std(): the sample standard deviation (ddof=1).
RollingStdOf(ps, pq, pc, n, w) ==
    [i \in 1..n |->
        IF i < w \/ WindowCount(pc, i, w) < w THEN NaN
        ELSE FSqrt(FDiv(FSub(WindowSum(pq, i, w),
                             FDiv(FMul(WindowSum(ps, i, w), WindowSum(ps, i, w)),
                                  Q(w, 1))),
                        Q(w - 1, 1)))]

RollingStd(col, w) ==
    RollingStdOf(PrefixSum(col, Len(col)), PrefixSum(Squares(col), Len(col)),
                 PrefixCount(col, Len(col)), Len(col), w)

\* A float rounded down to a multiple of 1/FixedPoint, as an integer count.
ToFixed(x) == (x.n * FixedPoint) \div x.d

\* Series.ewm(span=span, adjust=False).mean(): seeded with the first
\* observation, then y[i] = y[i-1] + alpha * (x[i] - y[i-1]) with
\* alpha = 2/(span+1); a NaN observation carries the previous value on.
\* The recursion is evaluated in fixed point (multiples of 1/FixedPoint).
EwmNext(last, x, span) ==
    IF IsNaN(x) THEN last
    ELSE IF IsNaN(last) THEN Q(ToFixed(x), FixedPoint)
    ELSE LET y == ToFixed(last)
         IN Q(y + (2 * (ToFixed(x) - y)) \div (span + 1), FixedPoint)

\* Rows lo..hi smoothed on from the value `last` of the row before lo.
RECURSIVE EwmFrom(_, _, _, _, _)
EwmFrom(col, span, lo, hi, last) ==
    IF lo > hi THEN <<>>
    ELSE IF lo = hi THEN <<EwmNext(last, col[lo], span)>>
    ELSE LET mid == (lo + hi) \div 2
             lower == EwmFrom(col, span, lo, mid, last)
         IN lower \o EwmFrom(col, span, mid + 1, hi, lower[Len(lower)])

EwmFixed(col, span, i) == EwmFrom(col, span, 1, i, NaN)

\* Mutant: ewm(span=span, min_periods=span), whose first span-1 rows are NaN.
EwmMeanWarmUp(col, span) ==
    [i \in 1..Len(col) |->
        IF i < span THEN NaN ELSE EwmFixed(col, span, Len(col))[i]]

EwmMean(col, span) == EwmFixed(col, span, Len(col))

\* MACD = exp1 - exp2
MACDOf(close) ==
    LET exp1 == EwmMean(close, EMAFast)
        exp2 == EwmMean(close, EMASlow)
    IN [i \in 1..Len(close) |-> FSub(exp1[i], exp2[i])]

\* Max of floats skipping NaN (DataFrame.max(axis=1), skipna=True).
FMaxSkipNa(a, b) ==
    IF IsNaN(a) THEN b ELSE IF IsNaN(b) THEN a ELSE IF FLess(a, b) THEN b ELSE a

\* Mutant: the undefined cells filled with 0 (fillna(0)) instead.
FillZero(col) == [i \in 1..Len(col) |-> IF IsNaN(col[i]) THEN Zero ELSE col[i]]

\* Mutant: bfill(limit=1), a NaN cell filled from the very next row only.
BfillOneRow(col) ==
    [i \in 1..Len(col) |->
        IF IsNaN(col[i]) /\ i < Len(col) THEN col[i + 1] ELSE col[i]]

\* Series.bfill(): every NaN cell takes the next non-NaN cell below it;
\* NaN cells with no defined cell below them stay NaN.  Rows lo..hi are
\* filled given the value `below` that the rows after hi pass up; the later
\* half of the rows is filled before the earlier half.
RECURSIVE BfillFrom(_, _, _, _)
BfillFrom(col, lo, hi, below) ==
    IF lo > hi THEN <<>>
    ELSE IF lo = hi THEN <<IF IsNaN(col[lo]) THEN below ELSE col[lo]>>
    ELSE LET mid == (lo + hi) \div 2
             upper == BfillFrom(col, mid + 1, hi, below)
         IN IF Len(upper) = 0 THEN <<>>
            ELSE BfillFrom(col, lo, mid, upper[1]) \o upper

Bfill(col) == BfillFrom(col, 1, Len(col), NaN)

(***************************************************************************)
(* DataFrames.                                                             *)
(***************************************************************************)
RawColumns == {"Open", "High", "Low", "Close", "Volume"}

IndicatorColumns ==
    {"MA20", "MA50", "RSI", "MACD", "Signal_Line", "MA20_std", "Upper_Band",
     "Lower_Band", "ATR"}

Columns(df) == DOMAIN df.cols

NRows(df) == Len(df.index)

\* df with the columns of `new` added (or overwritten), as df[name] = ...
Assign(df, new) ==
    [df EXCEPT !.cols = [c \in DOMAIN df.cols \cup DOMAIN new |->
                            IF c \in DOMAIN new THEN new[c] ELSE df.cols[c]]]

\* DataFrame.dropna(): the rows without any NaN cell, in their order.
ValidRows(df) ==
    SelectSeq([i \in 1..NRows(df) |-> i],
              LAMBDA i : \A c \in DOMAIN df.cols : ~IsNaN(df.cols[c][i]))

TakeRows(df, rows) ==
    [index |-> [j \in 1..Len(rows) |-> df.index[rows[j]]],
     cols |-> [c \in DOMAIN df.cols |->
                 [j \in 1..Len(rows) |-> df.cols[c][rows[j]]]]]

dropna(df) == TakeRows(df, ValidRows(df))

SelectColumns(df, names) == [df EXCEPT !.cols = [c \in names |-> df.cols[c]]]

\* DataFrame.bfill(): column by column, the index untouched.
BfillFrame(df) == [df EXCEPT !.cols = [c \in DOMAIN df.cols |-> Bfill(df.cols[c])]]

\* Mutant: an undefined gain/loss ratio resolved to an RSI of 100.
RSISaturating(gain, loss) ==
    [i \in 1..Len(gain) |->
        IF IsNaN(FDiv(gain[i], loss[i])) THEN Q(100, 1)
        ELSE FSub(Q(100, 1),
                  FDiv(Q(100, 1), FAdd(Q(1, 1), FDiv(gain[i], loss[i]))))]

\* RSI = 100 - 100 / (1 + gain / loss), row by row.
RSIOf(gain, loss) ==
    [i \in 1..Len(gain) |->
        FSub(Q(100, 1), FDiv(Q(100, 1), FAdd(Q(1, 1), FDiv(gain[i], loss[i]))))]

\* max(high - low, |high - previous close|, |low - previous close|)
TrueRange(high, low, close) ==
    [i \in 1..Len(close) |->
        LET prev == IF i <= 1 THEN NaN ELSE close[i - 1]
        IN FMaxSkipNa(FMaxSkipNa(FSub(high[i], low[i]),
                                 FAbs(FSub(high[i], prev))),
                      FAbs(FSub(low[i], prev)))]

\* The indicator columns before the final bfill.
IndicatorsOf(df) ==
    LET close == df.cols["Close"]
        n == Len(close)
        ps == PrefixSum(close, n)
        pc == PrefixCount(close, n)
        ma20 == RollingMeanOf(ps, pc, n, MA20Window)
        delta == Diff(close)
        gain == RollingMean(WherePositive(delta), RSIWindow)
        lossMean == RollingMean(WhereNegative(delta), RSIWindow)
        loss == [i \in 1..n |-> FNeg(lossMean[i])]
        macd == MACDOf(close)
        std == RollingStdOf(ps, PrefixSum(Squares(close), n), pc, n, MA20Window)
    IN  "MA20" :> ma20
     @@ "MA50" :> RollingMeanOf(ps, pc, n, MA50Window)
     @@ "RSI" :> RSIOf(gain, loss)
     @@ "MACD" :> macd
     @@ "Signal_Line" :> EwmMean(macd, EMASignal)
     @@ "MA20_std" :> std
     @@ "Upper_Band" :> [i \in 1..n |-> FAdd(ma20[i], FMul(std[i], Q(BandMult, 1)))]
     @@ "Lower_Band" :> [i \in 1..n |-> FSub(ma20[i], FMul(std[i], Q(BandMult, 1)))]
     @@ "ATR" :> RollingMean(TrueRange(df.cols["High"], df.cols["Low"], close),
                             ATRWindow)

\* Mutant: the final fill replaced by dropna(), which removes the warm-up rows.
calculate_dropping_rows(df) == dropna(Assign(df, IndicatorsOf(df)))

calculate_technical_indicators(df) == BfillFrame(Assign(df, IndicatorsOf(df)))

(***************************************************************************)
(* Input series: n bars on trading days (weekends are gaps), whose Close   *)
(* moves by s1 per bar for the first t bars and by s2 per bar afterwards.  *)
(***************************************************************************)
Slopes == {-1, 0, 1}

Spreads == {0, 1}

DateOf(i) == FirstDay + (i - 1) + 2 * ((i - 1) \div 5)

CloseOf(i, t, s1, s2) ==
    BasePrice + s1 * Min2(i - 1, t) + s2 * Max2(0, i - 1 - t)

RawFrame(n, t, s1, s2, spread) ==
    [index |-> [i \in 1..n |-> DateOf(i)],
     cols |-> [c \in RawColumns |->
        [i \in 1..n |->
            CASE c = "High" -> Q(CloseOf(i, t, s1, s2) + spread, 1)
              [] c = "Low" -> Q(CloseOf(i, t, s1, s2) - spread, 1)
              [] c = "Volume" -> Q(1000, 1)
              [] OTHER -> Q(CloseOf(i, t, s1, s2), 1)]]]

\* The slope changes after 0, 1 or 2 bars, or before the last bar.
EarlyTurns == {0, 1, 2}

LateTurns == {2}

Turns(n) == {t \in 0..n : t \in EarlyTurns \/ n - t \in LateTurns}

\* High = Low = Close (no spread) is tried on the constant-slope series only.
Shapes(n) ==
    {sh \in [t : Turns(n), s1 : Slopes, s2 : Slopes, spread : Spreads] :
        sh.spread = 1 \/ sh.s1 = sh.s2}

\* A frame read back from the price table, in which save_stock_prices
\* stored the cells of bar z that the download left undefined as 0.
ZeroAt(frame, z) ==
    [frame EXCEPT !.cols =
        [c \in DOMAIN frame.cols |-> [frame.cols[c] EXCEPT ![z] = Zero]]]

\* What get_stock_data returns when the lookup or the download raised: 30
\* rows of NaN, dated today, yesterday, the day before, and so on.
FallbackFrame ==
    [index |-> [i \in 1..FallbackRows |-> Today - (i - 1)],
     cols |-> [c \in RawColumns |-> [i \in 1..FallbackRows |-> NaN]]]

\* 200 bars with Open = High = Low = Close = 100 and Volume = 1000.
ScenarioFrame == RawFrame(ScenarioLen, 0, 0, 0, 0)

(***************************************************************************)
(* create_features                                                         *)
(***************************************************************************)
LagName(k) ==
    CASE k = 1 -> "lag_1" [] k = 2 -> "lag_2" [] k = 3 -> "lag_3"
      [] k = 5 -> "lag_5" [] k = 10 -> "lag_10"

ReturnName(k) ==
    CASE k = 1 -> "return_1" [] k = 2 -> "return_2" [] k = 3 -> "return_3"
      [] k = 5 -> "return_5" [] k = 10 -> "return_10"

LagSet == {ConsistentLags[j] : j \in 1..Len(ConsistentLags)}

LagColumns == {LagName(k) : k \in LagSet}

ReturnColumns == {ReturnName(k) : k \in LagSet}

feature_columns ==
    {"Open", "High", "Low", "Close", "Volume", "MA20", "MA50", "RSI", "MACD",
     "Signal_Line", "Upper_Band", "Lower_Band", "ATR"}
        \cup LagColumns \cup ReturnColumns

\* lag_k = Close.shift(k) and return_k = Close / lag_k - 1
LagFeatures(df) ==
    LET close == df.cols["Close"]
        n == Len(close)
    IN [c \in LagColumns \cup ReturnColumns |->
          LET k == CHOOSE l \in LagSet : c \in {LagName(l), ReturnName(l)}
          IN IF c \in LagColumns THEN Shift(close, k)
             ELSE [i \in 1..n |->
                     FSub(FDiv(close[i], IF i <= k THEN NaN ELSE close[i - k]),
                          Q(1, 1))]]

\* The feature columns that df_features[feature_columns] would not find in
\* df; the lags and returns are always there, create_features adds them.
MissingFeatures(df) ==
    (feature_columns \ (LagColumns \cup ReturnColumns)) \ Columns(df)

\* Mutant: the target taken from the following bar.
create_features_next_bar(df) ==
    LET close == df.cols["Close"]
        n == Len(close)
        target == [i \in 1..n |-> IF i < n THEN close[i + 1] ELSE NaN]
        df_features == dropna(Assign(df, LagFeatures(df) @@ ("target" :> target)))
    IN [X |-> SelectColumns(df_features, feature_columns),
        y |-> df_features.cols["target"]]

\* The pair (X, y) as a record; df must carry every feature column, the
\* selection raises KeyError otherwise.
create_features(df) ==
    LET df_features == dropna(Assign(df, LagFeatures(df)))
    IN [X |-> SelectColumns(df_features, feature_columns),
        y |-> df_features.cols["Close"]]

(***************************************************************************)
(* train_test_split(X, y, test_size=0.2, shuffle=False)                    *)
(***************************************************************************)
\* ceil(test_size * n_samples)
NTest(n) == (TestSizeNum * n + TestSizeDen - 1) \div TestSizeDen

NTrain(n) == n - NTest(n)

\* Rows a..b of a sequence.
Slice(seq, a, b) == [j \in 1..(b - a + 1) |-> seq[a + j - 1]]

\* Mutant: the split taken with the test rows first, as a shuffled split
\* may place them.
split_test_first(X, y) ==
    LET n == NRows(X)
        rows == [i \in 1..n |-> i]
    IN [ok |-> NTrain(n) > 0,
        X_train |-> TakeRows(X, Slice(rows, NTest(n) + 1, n)),
        X_test |-> TakeRows(X, Slice(rows, 1, NTest(n))),
        y_train |-> Slice(y, NTest(n) + 1, n),
        y_test |-> Slice(y, 1, NTest(n))]

\* Without shuffling the training rows are the first NTrain rows and the
\* test rows the ones that follow; an empty training set is a ValueError.
train_test_split(X, y) ==
    LET n == NRows(X)
        rows == [i \in 1..n |-> i]
    IN [ok |-> NTrain(n) > 0,
        X_train |-> TakeRows(X, Slice(rows, 1, NTrain(n))),
        X_test |-> TakeRows(X, Slice(rows, NTrain(n) + 1, n)),
        y_train |-> Slice(y, 1, NTrain(n)),
        y_test |-> Slice(y, NTrain(n) + 1, n)]

(***************************************************************************)
(* The regressor.  A fitted RandomForestRegressor predicts, for any row,   *)
(* an average of training targets, hence a value between the smallest and  *)
(* the largest training target, and the same value for the same row.  The  *)
(* model keeps that envelope and one of three ways of choosing inside it.  *)
(***************************************************************************)
ModelKinds == {"low", "high", "follow"}

RECURSIVE SeqMin(_, _)
SeqMin(seq, i) ==
    IF i = 1 THEN seq[1]
    ELSE LET m == SeqMin(seq, i - 1) IN IF FLess(seq[i], m) THEN seq[i] ELSE m

RECURSIVE SeqMax(_, _)
SeqMax(seq, i) ==
    IF i = 1 THEN seq[1]
    ELSE LET m == SeqMax(seq, i - 1) IN IF FLess(m, seq[i]) THEN seq[i] ELSE m

HasInf(X) ==
    \E c \in DOMAIN X.cols : \E i \in 1..NRows(X) : IsInf(X.cols[c][i])

\* model.fit(X_train, y_train); input validation rejects infinite cells.
Fit(kind, X_train, y_train) ==
    [kind |-> kind,
     lo |-> SeqMin(y_train, Len(y_train)),
     hi |-> SeqMax(y_train, Len(y_train))]

\* model.predict on one feature row (a function from column to cell).
PredictRow(model, row) ==
    CASE model.kind = "low" -> model.lo
      [] model.kind = "high" -> model.hi
      [] model.kind = "echo" ->
            IF FLess(row["lag_10"], model.lo) THEN model.lo
            ELSE IF FLess(model.hi, row["lag_10"]) THEN model.hi
            ELSE row["lag_10"]
      [] OTHER -> IF FLess(row["Close"], model.lo) THEN model.lo
                  ELSE IF FLess(model.hi, row["Close"]) THEN model.hi
                  ELSE row["Close"]

RowOf(X, i) == [c \in DOMAIN X.cols |-> X.cols[c][i]]

Predict(model, X) == [i \in 1..NRows(X) |-> PredictRow(model, RowOf(X, i))]

(***************************************************************************)
(* Evaluation on the test split.                                           *)
(***************************************************************************)
RECURSIVE SeqSum(_, _)
SeqSum(seq, i) == IF i = 0 THEN Zero ELSE FAdd(SeqSum(seq, i - 1), seq[i])

SeqMean(seq) == FDiv(SeqSum(seq, Len(seq)), Q(Len(seq), 1))

SquaredDiffs(a, b) ==
    [i \in 1..Len(a) |-> FMul(FSub(a[i], b[i]), FSub(a[i], b[i]))]

\* sklearn.metrics.r2_score: NaN for fewer than two samples; with a
\* constant y_true it is 1.0 for a perfect fit and 0.0 otherwise.
r2_score(y_true, y_pred) ==
    IF Len(y_pred) < 2 THEN NaN
    ELSE LET numerator == SeqSum(SquaredDiffs(y_true, y_pred), Len(y_true))
             mean == SeqMean(y_true)
             denominator ==
                 SeqSum(SquaredDiffs(y_true, [i \in 1..Len(y_true) |-> mean]),
                        Len(y_true))
         IN IF ~IsZero(denominator)
            THEN FSub(Q(1, 1), FDiv(numerator, denominator))
            ELSE IF ~IsZero(numerator) THEN Zero ELSE Q(1, 1)

\* np.sign(a[1:] - a[:-1])
Directions(a) ==
    [j \in 1..(Len(a) - 1) |-> SignOf(FSub(a[j + 1], a[j]))]

Agreements(y_test, y_pred) ==
    Cardinality({j \in 1..(Len(y_test) - 1) :
                    Directions(y_test)[j] = Directions(y_pred)[j]})

\* np.mean(actual_direction == pred_direction) * 100; the mean of an empty
\* array is NaN.
DirectionAccuracy(y_test, y_pred) ==
    FMul(FDiv(Q(Agreements(y_test, y_pred), 1), Q(Len(y_test) - 1, 1)),
         Q(100, 1))

\* Python's built-in min(a, b) and max(a, b): b wins only by a strict
\* comparison, so a NaN in second place never wins.
PyMin(a, b) == IF FLess(b, a) THEN b ELSE a

PyMax(a, b) == IF FLess(a, b) THEN b ELSE a

\* Mutant: the lower clamp forgotten.
ConfidenceUnclampedBelow(r2) == PyMin(Q(100, 1), FMul(r2, Q(100, 1)))

Confidence(r2) == PyMax(Zero, PyMin(Q(100, 1), FMul(r2, Q(100, 1))))

\* Mutant: the range started at the last historical date itself.
FutureDatesFromLast(last_date, h) == [j \in 1..h |-> last_date + (j - 1)]

\* pd.date_range(start=last_date + timedelta(days=1), periods=h)
FutureDates(last_date, h) == [j \in 1..h |-> last_date + 1 + (j - 1)]

(***************************************************************************)
(* The forecast loop and the confidence band.                              *)
(***************************************************************************)
\* Mutant: the shift stopping short of lag_10, which keeps the close of ten
\* bars before the walk.
ShiftLagsKeepingOldest(row, j) ==
    [row EXCEPT !["lag_5"] = row["lag_3"], !["lag_3"] = row["lag_2"],
                !["lag_2"] = row["lag_1"]]

\* Mutant: the shift run in ascending order, so that every lag receives a
\* value already overwritten in the same step.
RECURSIVE ShiftLagsAscending(_, _)
ShiftLagsAscending(row, j) ==
    IF j < 2 THEN row
    ELSE LET below == ShiftLagsAscending(row, j - 1)
         IN [below EXCEPT ![LagName(ConsistentLags[j])] =
                              below[LagName(ConsistentLags[j - 1])]]

\* for j in range(len(consistent_lags)-1, 0, -1):
\*     last_row[lag_{lags[j]}] = last_row[lag_{lags[j-1]}]
RECURSIVE ShiftLags(_, _)
ShiftLags(row, j) ==
    IF j < 2 THEN row
    ELSE ShiftLags([row EXCEPT ![LagName(ConsistentLags[j])] =
                                  row[LagName(ConsistentLags[j - 1])]],
                   j - 1)

\* for lag in consistent_lags:
\*     if last_row[lag_k] != 0: last_row[return_k] = next_pred / lag_k - 1
\* Mutant: the returns recomputed without the guard on a zero lag.
RECURSIVE RecalcReturnsUnguarded(_, _, _)
RecalcReturnsUnguarded(row, next_pred, j) ==
    IF j > Len(ConsistentLags) THEN row
    ELSE LET k == ConsistentLags[j]
         IN RecalcReturnsUnguarded(
                [row EXCEPT ![ReturnName(k)] =
                    FSub(FDiv(next_pred, row[LagName(k)]), Q(1, 1))],
                next_pred, j + 1)

RECURSIVE RecalcReturns(_, _, _)
RecalcReturns(row, next_pred, j) ==
    IF j > Len(ConsistentLags) THEN row
    ELSE LET k == ConsistentLags[j]
             lag == row[LagName(k)]
         IN RecalcReturns(
                IF ~FEq(lag, Zero)
                THEN [row EXCEPT ![ReturnName(k)] =
                                    FSub(FDiv(next_pred, lag), Q(1, 1))]
                ELSE row,
                next_pred, j + 1)

\* Mutant: a step that also moves the bar's Open and its averages to the
\* prediction.
UpdateLastRowRefreshing(row, next_pred) ==
    RecalcReturns(
        [ShiftLags(row, Len(ConsistentLags))
            EXCEPT !["lag_1"] = next_pred, !["Close"] = next_pred,
                   !["Open"] = next_pred, !["MA20"] = next_pred],
        next_pred, 1)

\* Mutant: a step that leaves Close at the historical close.
UpdateLastRowKeepingClose(row, next_pred) ==
    RecalcReturns(
        [ShiftLags(row, Len(ConsistentLags)) EXCEPT !["lag_1"] = next_pred],
        row["Close"], 1)

\* One iteration of the loop body after the prediction has been made.
UpdateLastRow(row, next_pred) ==
    RecalcReturns(
        [ShiftLags(row, Len(ConsistentLags))
            EXCEPT !["lag_1"] = next_pred, !["Close"] = next_pred],
        next_pred, 1)

\* np.std(y_test - y_pred): numpy hands the Series' own std its default
\* ddof=0, the population standard deviation; kept here as the variance.
ResidualVariance(y_test, y_pred) ==
    LET resid == [i \in 1..Len(y_test) |-> FSub(y_test[i], y_pred[i])]
        mean == SeqMean(resid)
    IN FDiv(SeqSum(SquaredDiffs(resid, [i \in 1..Len(resid) |-> mean]),
                   Len(resid)),
            Q(Len(resid), 1))

\* Mutant: the band without the widening by the forecast step.
HalfWidthFlat(variance, i) ==
    FSqrt(FMul(variance, Q(BandMultTimes100 * BandMultTimes100, 100 * 100)))

\* multiplier * std_dev * sqrt(i / 10) with multiplier = 1.96, exactly:
\* the square root of 1.96^2 * variance * i / 10.
HalfWidth(variance, i) ==
    FSqrt(FMul(FMul(variance, Q(BandMultTimes100 * BandMultTimes100, 100 * 100)),
               Q(i, HorizonDivisor)))

(***************************************************************************)
(* State.  df is the caller's frame; the other variables are the locals    *)
(* and the return value of the one predict_stock_trend call in progress;   *)
(* features is the pair (X, y) that create_features returned.  fill is a    *)
(* Series under repeated bfill() and calls the locals of concurrent calls   *)
(* of predict_stock_trend; both stay empty in the single-call               *)
(* specification.                                                          *)
(***************************************************************************)
VARIABLES df, phase, error, prediction_days, features, X_train_index,
          X_test_index, y_test, y_pred, model, accuracy, confidence,
          future_dates, last_row, predictions, pred_df, fill, calls, db

vars == <<df, phase, error, prediction_days, features, X_train_index,
          X_test_index, y_test, y_pred, model, accuracy, confidence,
          future_dates, last_row, predictions, pred_df, fill, calls, db>>

fitted == <<X_train_index, X_test_index, y_test, y_pred, model, accuracy,
            confidence, future_dates, last_row, predictions, pred_df>>

None == [k |-> "none", n |-> 0, d |-> 1, c |-> 0, rn |-> 0, rd |-> 1]

NoFrame == [index |-> <<>>, cols |-> <<>>]

NoFill == [input |-> <<>>, output |-> <<>>, count |-> 0]

\* No save_stock_prices call has been made and stock_prices is empty.
NoSave == [symbol |-> "", stock_id |-> 0, frame |-> <<>>, k |-> 0, before |-> <<>>]

NoStore ==
    [prices |-> <<>>, status |-> "idle", call |-> NoSave, result |-> "none",
     saves |-> 0]

\* No predict_stock_trend call has started.
NoCall ==
    /\ phase = "idle"
    /\ error = "none"
    /\ prediction_days = 0
    /\ features = [X |-> NoFrame, y |-> <<>>]
    /\ X_train_index = <<>>
    /\ X_test_index = <<>>
    /\ y_test = <<>>
    /\ y_pred = <<>>
    /\ model = [kind |-> "none", lo |-> None, hi |-> None]
    /\ accuracy = None
    /\ confidence = None
    /\ future_dates = <<>>
    /\ last_row = <<>>
    /\ predictions = <<>>
    /\ pred_df = NoFrame

\* A frame that carries some of the indicator columns but not column c.
WithoutColumn(frame, c) ==
    [frame EXCEPT !.cols = [x \in DOMAIN frame.cols \ {c} |-> frame.cols[x]]]

\* df is what get_stock_data returned: a downloaded or cached series, a
\* cached series with a bar stored as zeros, or the fallback frame; or a
\* frame a caller of predict_stock_trend put together with RSI but without
\* ATR.
Init ==
    /\ \/ \E n \in 0..MaxLen : \E sh \in Shapes(n) :
              df = RawFrame(n, sh.t, sh.s1, sh.s2, sh.spread)
       \/ \E s \in Slopes : df = ZeroAt(RawFrame(MaxLen, 0, s, s, 1), MaxLen - 1)
       \/ df = FallbackFrame
       \/ df = ScenarioFrame
       \/ df = WithoutColumn(
                   calculate_technical_indicators(RawFrame(MaxLen, 0, 1, 1, 1)),
                   "ATR")
    /\ fill = NoFill
    /\ calls = <<>>
    /\ db = NoStore
    /\ NoCall

\* app.py: df = calculate_technical_indicators(df)
CalcIndicators ==
    /\ phase = "idle"
    /\ "RSI" \notin Columns(df)
    /\ df' = calculate_technical_indicators(df)
    /\ UNCHANGED <<phase, error, prediction_days, features, fitted>>
    /\ UNCHANGED <<fill, calls, db>>

\* predict_stock_trend(df, prediction_days) up to create_features: the
\* indicators are computed on a local frame when df carries no RSI column.
PredictStart ==
    /\ phase = "idle"
    /\ IF "RSI" \in Columns(df) /\ MissingFeatures(df) # {}
       THEN /\ phase' = "failed"
            /\ error' = "KeyError"
            /\ UNCHANGED features
       ELSE /\ features' = create_features(IF "RSI" \notin Columns(df)
                                           THEN calculate_technical_indicators(df)
                                           ELSE df)
            /\ phase' = "features"
            /\ UNCHANGED error
    /\ \E h \in 1..MaxHorizon : prediction_days' = h
    /\ UNCHANGED <<df, fitted>>
    /\ UNCHANGED <<fill, calls, db>>

\* train_test_split, fit, the evaluation on the test split, and the set-up
\* of the forecast loop.  The split of an empty X and the validation of a
\* non-finite X raise ValueError.
PredictFit ==
    /\ phase = "features"
    /\ UNCHANGED <<fill, calls, db>>
    /\ LET X == features.X
           split == train_test_split(X, features.y)
       IN IF ~split.ok \/ HasInf(X)
          THEN /\ phase' = "failed"
               /\ error' = "ValueError"
               /\ UNCHANGED <<df, prediction_days, features, fitted>>
          ELSE \E kind \in ModelKinds :
                 LET rf == Fit(kind, split.X_train, split.y_train)
                     pred == Predict(rf, split.X_test)
                     dates == FutureDates(df.index[NRows(df)], prediction_days)
                 IN /\ phase' = "forecasting"
                    /\ X_train_index' = split.X_train.index
                    /\ X_test_index' = split.X_test.index
                    /\ y_test' = split.y_test
                    /\ y_pred' = pred
                    /\ model' = rf
                    /\ accuracy' = DirectionAccuracy(split.y_test, pred)
                    /\ confidence' = Confidence(r2_score(split.y_test, pred))
                    /\ future_dates' = dates
                    /\ last_row' = RowOf(X, NRows(X))
                    /\ predictions' = <<>>
                    /\ pred_df' = [index |-> dates, cols |-> <<>>]
                    /\ UNCHANGED <<df, error, prediction_days, features>>

\* One iteration of: for i in range(prediction_days)
ForecastStep ==
    /\ phase = "forecasting"
    /\ Len(predictions) < prediction_days
    /\ LET next_pred == PredictRow(model, last_row)
       IN /\ predictions' = Append(predictions, next_pred)
          /\ last_row' = UpdateLastRow(last_row, next_pred)
    /\ UNCHANGED <<df, phase, error, prediction_days, features, X_train_index,
                   X_test_index, y_test, y_pred, model, accuracy, confidence,
                   future_dates, pred_df, fill, calls, db>>

\* After the loop: the Predicted column, the band, and the return.
PredictFinish ==
    /\ phase = "forecasting"
    /\ Len(predictions) = prediction_days
    /\ LET variance == ResidualVariance(y_test, y_pred)
       IN pred_df' =
            [pred_df EXCEPT !.cols =
                [c \in {"Predicted", "Upper_Bound", "Lower_Bound"} |->
                    [i \in 1..prediction_days |->
                        CASE c = "Predicted" -> predictions[i]
                          [] c = "Upper_Bound" ->
                                FAdd(predictions[i], HalfWidth(variance, i))
                          [] OTHER ->
                                FSub(predictions[i], HalfWidth(variance, i))]]]
    /\ phase' = "done"
    /\ UNCHANGED <<df, error, prediction_days, features, X_train_index,
                   X_test_index, y_test, y_pred, model, accuracy, confidence,
                   future_dates, last_row, predictions, fill, calls, db>>

Next ==
    \/ CalcIndicators
    \/ PredictStart
    \/ PredictFit
    \/ ForecastStep
    \/ PredictFinish

Spec == Init /\ [][Next]_vars

(***************************************************************************)
(* bfill() on its own: any Series of defined and undefined cells, filled    *)
(* once and filled again.                                                   *)
(***************************************************************************)
SeriesCells == {NaN, Q(1, 1), Q(2, 1)}

FillInit ==
    /\ \E n \in 0..MaxSeriesLen : \E s \in [1..n -> SeriesCells] :
          fill = [input |-> s, output |-> s, count |-> 0]
    /\ df = NoFrame
    /\ calls = <<>>
    /\ db = NoStore
    /\ NoCall

\* series = series.bfill()
ApplyBfill ==
    /\ fill.count < MaxFills
    /\ fill' = [fill EXCEPT !.output = Bfill(fill.output), !.count = @ + 1]
    /\ UNCHANGED <<df, phase, error, prediction_days, features, fitted, calls, db>>

FillNext == ApplyBfill

FillSpec == FillInit /\ [][FillNext]_vars

(***************************************************************************)
(* Concurrent calls.  Two calls of predict_stock_trend run interleaved on   *)
(* the caller's frame df; calls[c] holds the arguments and the locals of    *)
(* call c.  A call is written as a chain of functions on its locals, one    *)
(* per stretch of the function body, and predict_stock_trend is the chain   *)
(* run from start to end without interruption.                              *)
(***************************************************************************)
CallIds == {1, 2}

NoModel == [kind |-> "none", lo |-> None, hi |-> None]

\* The locals of a call that has its arguments and has not run yet; forest
\* is the forest the seed random_state=42 makes the fit grow.
IdleCall(h, forest) ==
    [phase |-> "idle", error |-> "none", prediction_days |-> h,
     forest |-> forest, features |-> [X |-> NoFrame, y |-> <<>>],
     y_test |-> <<>>, y_pred |-> <<>>, model |-> NoModel, accuracy |-> None,
     confidence |-> None, last_row |-> <<>>, predictions |-> <<>>,
     pred_df |-> NoFrame]

\* Mutant: RandomForestRegressor() without random_state, every fit growing
\* the forest its own random draws give.
UnseededForest(seeded, drawn) == drawn

\* RandomForestRegressor(n_estimators=100, random_state=42): the bootstrap
\* and feature draws come from the seed, whatever the process would draw.
SeededForest(seeded, drawn) == seeded

\* Lines 116-120: the indicators on a copy if absent, then create_features.
WithFeatures(loc, frame) ==
    IF "RSI" \in Columns(frame) /\ MissingFeatures(frame) # {}
    THEN [loc EXCEPT !.phase = "failed", !.error = "KeyError"]
    ELSE [loc EXCEPT !.phase = "features",
                     !.features = create_features(
                         IF "RSI" \notin Columns(frame)
                         THEN calculate_technical_indicators(frame) ELSE frame)]

\* Lines 123-157: split, fit, evaluation and the set-up of the loop.
WithFit(loc, frame, kind) ==
    LET X == loc.features.X
        split == train_test_split(X, loc.features.y)
    IN IF ~split.ok \/ HasInf(X)
       THEN [loc EXCEPT !.phase = "failed", !.error = "ValueError"]
       ELSE LET rf == Fit(kind, split.X_train, split.y_train)
                pred == Predict(rf, split.X_test)
            IN [loc EXCEPT
                  !.phase = "forecasting",
                  !.y_test = split.y_test,
                  !.y_pred = pred,
                  !.model = rf,
                  !.accuracy = DirectionAccuracy(split.y_test, pred),
                  !.confidence = Confidence(r2_score(split.y_test, pred)),
                  !.last_row = RowOf(X, NRows(X)),
                  !.pred_df = [index |-> FutureDates(frame.index[NRows(frame)],
                                                     loc.prediction_days),
                               cols |-> <<>>]]

\* Lines 159-180: one iteration of the forecast loop.
WithStep(loc) ==
    LET next_pred == PredictRow(loc.model, loc.last_row)
    IN [loc EXCEPT !.predictions = Append(loc.predictions, next_pred),
                   !.last_row = UpdateLastRow(loc.last_row, next_pred)]

\* Lines 182-192: the Predicted column and the band.
WithBand(loc) ==
    LET variance == ResidualVariance(loc.y_test, loc.y_pred)
    IN [loc EXCEPT
          !.phase = "done",
          !.pred_df = [index |-> loc.pred_df.index,
                       cols |->
                         [c \in {"Predicted", "Upper_Bound", "Lower_Bound"} |->
                            [i \in 1..loc.prediction_days |->
                               CASE c = "Predicted" -> loc.predictions[i]
                                 [] c = "Upper_Bound" ->
                                      FAdd(loc.predictions[i], HalfWidth(variance, i))
                                 [] OTHER ->
                                      FSub(loc.predictions[i], HalfWidth(variance, i))]]]]

RECURSIVE ForecastLoop(_)
ForecastLoop(loc) ==
    IF Len(loc.predictions) = loc.prediction_days THEN loc
    ELSE ForecastLoop(WithStep(loc))

\* One call run alone from its arguments to its return or its exception.
predict_stock_trend(frame, h, forest) ==
    LET fit == WithFit(WithFeatures(IdleCall(h, forest), frame), frame, forest)
    IN IF fit.phase = "failed" THEN fit ELSE WithBand(ForecastLoop(fit))

\* What the caller gets: (pred_df, direction_accuracy, confidence) or the
\* exception.
ReturnValue(loc) ==
    [error |-> loc.error, pred_df |-> loc.pred_df, accuracy |-> loc.accuracy,
     confidence |-> loc.confidence]

\* The frames the concurrent callers pass: 52 rising bars, 52 bars that turn
\* down at the end, the same with the indicators already computed, and 30
\* bars, too few for any feature row.
ConcFrames ==
    {RawFrame(MaxLen, 0, 1, 1, 1), RawFrame(MaxLen, MaxLen - 2, 1, -1, 1),
     calculate_technical_indicators(RawFrame(MaxLen, MaxLen - 2, 1, -1, 1)),
     RawFrame(MaxLen - 22, 0, 1, 1, 1)}

ConcInit ==
    /\ df \in ConcFrames
    /\ \E forest \in ModelKinds :
          \E h \in [CallIds -> 1..MaxConcHorizon] :
             calls = [c \in CallIds |-> IdleCall(h[c], forest)]
    /\ fill = NoFill
    /\ db = NoStore
    /\ NoCall

CallStart(c) ==
    /\ calls[c].phase = "idle"
    /\ calls' = [calls EXCEPT ![c] = WithFeatures(calls[c], df)]
    /\ UNCHANGED <<df, phase, error, prediction_days, features, fitted, fill, db>>

CallFit(c) ==
    /\ calls[c].phase = "features"
    /\ \E drawn \in ModelKinds :
          calls' = [calls EXCEPT
                      ![c] = WithFit(calls[c], df,
                                     SeededForest(calls[c].forest, drawn))]
    /\ UNCHANGED <<df, phase, error, prediction_days, features, fitted, fill, db>>

CallStep(c) ==
    /\ calls[c].phase = "forecasting"
    /\ Len(calls[c].predictions) < calls[c].prediction_days
    /\ calls' = [calls EXCEPT ![c] = WithStep(calls[c])]
    /\ UNCHANGED <<df, phase, error, prediction_days, features, fitted, fill, db>>

CallFinish(c) ==
    /\ calls[c].phase = "forecasting"
    /\ Len(calls[c].predictions) = calls[c].prediction_days
    /\ calls' = [calls EXCEPT ![c] = WithBand(calls[c])]
    /\ UNCHANGED <<df, phase, error, prediction_days, features, fitted, fill, db>>

ConcNext ==
    \E c \in CallIds :
        \/ CallStart(c)
        \/ CallFit(c)
        \/ CallStep(c)
        \/ CallFinish(c)

ConcSpec == ConcInit /\ [][ConcNext]_vars

(***************************************************************************)
(* The forecast loop on its own: the loop is entered with any fitted model  *)
(* and any working row, and then runs as in predict_stock_trend.  The       *)
(* working row's lags are told apart by their values, one of them may be    *)
(* zero, and the forest's envelope may contain zero; the forest "echo"      *)
(* splits on lag_10 alone, so that successive predictions differ.           *)
(***************************************************************************)
WalkKinds == {"low", "follow", "echo"}

WalkEnvelopes ==
    {<<Q(-1, 1), Q(20, 1)>>, <<Q(-1, 1), Zero>>, <<Zero, Zero>>,
     <<Q(2, 1), Q(2, 1)>>}

WalkCloses == {Zero, Q(7, 1)}

\* The working row: lag_k = k except for the lag z, which is zero;
\* return_k = k / 100; every other field is 50.
WalkRow(close, z) ==
    [c \in feature_columns |->
        IF c = "Close" THEN close
        ELSE IF c \in LagColumns
             THEN LET k == CHOOSE l \in LagSet : c = LagName(l)
                  IN IF k = z THEN Zero ELSE Q(k, 1)
        ELSE IF c \in ReturnColumns
             THEN LET k == CHOOSE l \in LagSet : c = ReturnName(l)
                  IN Q(k, 100)
        ELSE Q(50, 1)]

WalkInit ==
    /\ phase = "forecasting"
    /\ error = "none"
    /\ df = NoFrame
    /\ features = [X |-> NoFrame, y |-> <<>>]
    /\ X_train_index = <<>>
    /\ X_test_index = <<1>>
    /\ y_test = <<Q(1, 1)>>
    /\ y_pred = <<Q(2, 1)>>
    /\ accuracy = NaN
    /\ confidence = Q(50, 1)
    /\ predictions = <<>>
    /\ \E h \in 1..MaxHorizon :
          /\ prediction_days = h
          /\ future_dates = FutureDates(Today, h)
          /\ pred_df = [index |-> FutureDates(Today, h), cols |-> <<>>]
    /\ \E kind \in WalkKinds : \E env \in WalkEnvelopes :
          model = [kind |-> kind, lo |-> env[1], hi |-> env[2]]
    /\ \E close \in WalkCloses : \E z \in LagSet \cup {0} :
          last_row = WalkRow(close, z)
    /\ fill = NoFill
    /\ calls = <<>>
    /\ db = NoStore

WalkNext ==
    \/ ForecastStep
    \/ PredictFinish

WalkSpec == WalkInit /\ [][WalkNext]_vars

(***************************************************************************)
(***************************************************************************)
(* The price store.  db.prices is the committed content of the table        *)
(* stock_prices in insertion order; db.call holds the arguments of the      *)
(* save_stock_prices call in progress (or of the last one), the row k it    *)
(* is at, and the table as it was when the call began; db.result is what    *)
(* the call returned, until the caller has gone on.  Calls do not overlap.  *)
(***************************************************************************)
MaxSaves == 2

MaxRows == 2

LastDate == 2

\* The table stocks: symbol -> id.
Stocks == [AAPL |-> 1, MSFT |-> 2]

\* The symbols callers save under: one in stocks, one not.
Symbols == {"AAPL", "ZZZZ"}

\* session.query(Stock).filter(Stock.symbol == stock_symbol).first(),
\* 0 standing for None.
StockIdOf(symbol) == IF symbol \in DOMAIN Stocks THEN Stocks[symbol] ELSE 0

\* A cell that is not a number and that float() rejects.
NotANumber == [k |-> "str", n |-> 0, d |-> 1, c |-> 0, rn |-> 0, rd |-> 1]

CellKinds == {"num", "nan", "str"}

\* A row of the frame of save s for date d: a bar, a bar with Open, Close
\* and Volume undefined, or a bar whose Close is not a number.
FrameRow(d, kind, s) ==
    LET v == 100 + 10 * s
    IN [date |-> d,
        Open |-> IF kind = "nan" THEN NaN ELSE Q(v, 1),
        High |-> Q(v + 1, 1),
        Low |-> Q(v - 1, 1),
        Close |-> CASE kind = "nan" -> NaN
                    [] kind = "str" -> NotANumber
                    [] OTHER -> Q(v, 1),
        Volume |-> IF kind = "nan" THEN NaN ELSE Q(1000, 1)]

\* The frames price_df of save s: up to MaxRows rows in date order, a date
\* free to repeat.
Frames(s) ==
    UNION {{[j \in 1..n |-> FrameRow(dates[j], kinds[j], s)] :
                dates \in {ds \in [1..n -> 1..LastDate] :
                              \A j \in 1..(n - 1) : ds[j] <= ds[j + 1]},
                kinds \in [1..n -> CellKinds]} :
           n \in 0..MaxRows}

\* float(row[c]) if not pd.isna(row[c]) else 0.0
FloatOrZero(cell) == IF IsNaN(cell) THEN Zero ELSE cell

\* float() raises on a cell that is not a number.
Raises(row) == \E c \in RawColumns : row[c].k = "str"

\* The StockPrice built from, or updated with, one row of the frame.
StockPrice(stock_id, row) ==
    [stock_id |-> stock_id,
     date |-> row.date,
     open_price |-> FloatOrZero(row.Open),
     high_price |-> FloatOrZero(row.High),
     low_price |-> FloatOrZero(row.Low),
     close_price |-> FloatOrZero(row.Close),
     volume |-> FloatOrZero(row.Volume)]

\* session.query(StockPrice).filter(stock_id == ..., date == ...).first():
\* the position of the first match, 0 standing for None.
existing_price(prices, stock_id, date) ==
    LET hits == {i \in 1..Len(prices) :
                    prices[i].stock_id = stock_id /\ prices[i].date = date}
    IN IF hits = {} THEN 0 ELSE CHOOSE i \in hits : \A j \in hits : i <= j

\* Mutant: every row of the frame added as a new price row.
InsertAlways(prices, stock_id, row) == Append(prices, StockPrice(stock_id, row))

\* The update of the existing row, or session.add of a new one.
Upsert(prices, stock_id, row) ==
    LET i == existing_price(prices, stock_id, row.date)
    IN IF i # 0 THEN [prices EXCEPT ![i] = StockPrice(stock_id, row)]
       ELSE Append(prices, StockPrice(stock_id, row))

\* Mutant: a failure that undoes the whole call.
AfterFailureAtomic(before, committed) == before

\* session.rollback(): the table is as the last commit left it.
AfterFailure(before, committed) == committed

\* Price rows already in the table when the first call is made.
OldPrice(stock_id) ==
    [stock_id |-> stock_id, date |-> 1, open_price |-> Q(7, 1),
     high_price |-> Q(8, 1), low_price |-> Q(6, 1), close_price |-> Q(7, 1),
     volume |-> Q(500, 1)]

InitialStores ==
    {<<>>, <<OldPrice(1)>>, <<OldPrice(2)>>, <<OldPrice(2), OldPrice(1)>>}

StoreInit ==
    /\ \E prices \in InitialStores : db = [NoStore EXCEPT !.prices = prices]
    /\ df = NoFrame
    /\ fill = NoFill
    /\ calls = <<>>
    /\ NoCall

\* save_stock_prices(stock_symbol, price_df) up to the loop; for a symbol
\* that is not in stocks, the whole call.
SaveStart ==
    /\ db.status = "idle"
    /\ db.saves < MaxSaves
    /\ \E symbol \in Symbols : \E frame \in Frames(db.saves + 1) :
          db' = [db EXCEPT
                   !.saves = @ + 1,
                   !.call = [symbol |-> symbol, stock_id |-> StockIdOf(symbol),
                             frame |-> frame, k |-> 1, before |-> db.prices],
                   !.status = IF StockIdOf(symbol) # 0 THEN "running"
                              ELSE "returned",
                   !.result = IF StockIdOf(symbol) # 0 THEN "none" ELSE "False"]
    /\ UNCHANGED <<df, phase, error, prediction_days, features, fitted, fill,
                   calls>>

\* One iteration of the loop over price_df.iterrows(), committed.
SaveRow ==
    /\ db.status = "running"
    /\ db.call.k <= Len(db.call.frame)
    /\ ~Raises(db.call.frame[db.call.k])
    /\ db' = [db EXCEPT
                !.prices = Upsert(@, db.call.stock_id, db.call.frame[db.call.k]),
                !.call.k = @ + 1]
    /\ UNCHANGED <<df, phase, error, prediction_days, features, fitted, fill,
                   calls>>

\* One iteration that raises, in float() or in the query or commit: the
\* except branch rolls back and returns False.
SaveRowFails ==
    /\ db.status = "running"
    /\ db.call.k <= Len(db.call.frame)
    /\ db' = [db EXCEPT !.prices = AfterFailure(db.call.before, @),
                        !.status = "returned",
                        !.result = "False"]
    /\ UNCHANGED <<df, phase, error, prediction_days, features, fitted, fill,
                   calls>>

\* After the loop: session.close(); return True
SaveReturn ==
    /\ db.status = "running"
    /\ db.call.k > Len(db.call.frame)
    /\ db' = [db EXCEPT !.status = "returned", !.result = "True"]
    /\ UNCHANGED <<df, phase, error, prediction_days, features, fitted, fill,
                   calls>>

\* stock_data.py: save_stock_prices(symbol, df) as a statement; the caller
\* drops the result and goes on.
SaveDone ==
    /\ db.status = "returned"
    /\ db' = [db EXCEPT !.status = "idle", !.call = NoSave, !.result = "none"]
    /\ UNCHANGED <<df, phase, error, prediction_days, features, fitted, fill,
                   calls>>

StoreNext ==
    \/ SaveStart
    \/ SaveRow
    \/ SaveRowFails
    \/ SaveReturn
    \/ SaveDone

StoreSpec == StoreInit /\ [][StoreNext]_vars

(* Claims.                                                                 *)
(***************************************************************************)
HasIndicators == IndicatorColumns \subseteq Columns(df)

Fitted == phase \in {"forecasting", "done"}

\* C1: calculate_technical_indicators returns as many rows as it was given,
\* with the same dates in the same order, and every column has that length.
C1_RowsPreserved ==
    [][("RSI" \notin Columns(df) /\ "RSI" \in Columns(df'))
          => /\ df'.index = df.index
             /\ \A c \in Columns(df') : Len(df'.cols[c]) = NRows(df)
             /\ IndicatorColumns \cup RawColumns \subseteq Columns(df')]_vars

C1_Witness == HasIndicators /\ NRows(df) >= MA50Window

\* The frame with one more day added to the Close, High and Low of its
\* last bar: a different future for every earlier row.
PerturbLast(frame) ==
    [frame EXCEPT !.cols =
        [c \in DOMAIN frame.cols |->
            [i \in 1..NRows(frame) |->
                IF i = NRows(frame) /\ c \in {"Close", "High", "Low"}
                THEN FAdd(frame.cols[c][i], Q(1, 1))
                ELSE frame.cols[c][i]]]]

\* C2: every indicator value at row i depends on the bars up to row i only:
\* changing the last bar leaves all the earlier rows of the output as they
\* were, back-filled rows included.
C2_Causal ==
    HasIndicators =>
        LET alt == calculate_technical_indicators(
                       PerturbLast(SelectColumns(df, RawColumns)))
        IN \A c \in IndicatorColumns : \A i \in 1..(NRows(df) - 1) :
              alt.cols[c][i] = df.cols[c][i]

\* C3: no indicator frame is ever returned for an empty input series (the
\* call ends in an error instead).
C3_EmptyInputRejected == HasIndicators => NRows(df) > 0

\* C4: predict_stock_trend never splits, fits and forecasts on fewer than
\* 15 trainable rows.
C4_NoDegenerateFit == Fitted => NRows(features.X) >= 15

\* C5: the forecast has prediction_days points on consecutive calendar
\* days, the first one the day after the last historical date, all of them
\* after every historical date.
C5_ForecastDates ==
    phase = "done" =>
        /\ NRows(pred_df) = prediction_days
        /\ \A c \in Columns(pred_df) : Len(pred_df.cols[c]) = prediction_days
        /\ pred_df.index[1] = df.index[NRows(df)] + 1
        /\ \A j \in 2..prediction_days :
              pred_df.index[j] = pred_df.index[j - 1] + 1
        /\ \A j \in 1..prediction_days : \A i \in 1..NRows(df) :
              pred_df.index[j] > df.index[i]

C5_Witness ==
    /\ phase = "done"
    /\ prediction_days = MaxHorizon
    /\ Len(pred_df.cols["Predicted"]) = MaxHorizon

\* C6: the training rows are a prefix of the retained rows and the test
\* rows the remaining suffix, a fifth of them rounded up; every training
\* row is dated before every test row.
C6_ChronologicalSplit ==
    Fitted =>
        /\ X_train_index \o X_test_index = features.X.index
        /\ Len(X_test_index) = NTest(NRows(features.X))
        /\ 5 * Len(X_test_index) >= NRows(features.X)
        /\ 5 * Len(X_test_index) < NRows(features.X) + 5
        /\ \A a \in 1..Len(X_train_index) : \A b \in 1..Len(X_test_index) :
              X_train_index[a] < X_test_index[b]

C6_Witness ==
    /\ phase = "forecasting"
    /\ Len(X_train_index) >= 2
    /\ Len(X_test_index) >= 2

\* C7: with at least one full RSI window of history, every row's RSI is a
\* defined number between 0 and 100.
C7_RSIInRange ==
    (HasIndicators /\ NRows(df) > RSIWindow) =>
        \A i \in 1..NRows(df) :
            /\ IsRat(df.cols["RSI"][i])
            /\ FLeq(Zero, df.cols["RSI"][i])
            /\ FLeq(df.cols["RSI"][i], Q(100, 1))

\* The trailing-14 mean of the losses, recomputed from the Close column.
LossMean(frame) ==
    RollingMean(WhereNegative(Diff(frame.cols["Close"])), RSIWindow)

\* C8: at every row with a full window of 14 changes whose average loss is
\* 0, RSI is exactly 100.
C8_RSISaturates ==
    HasIndicators =>
        \A i \in (RSIWindow + 1)..NRows(df) :
            IsZero(LossMean(df)[i]) => df.cols["RSI"][i] = Q(100, 1)

\* clamp(x, 0, 100) on rationals.
Clamp100(x) ==
    IF FLess(x, Zero) THEN Zero ELSE IF FLess(Q(100, 1), x) THEN Q(100, 1) ELSE x

C10_DirectionAccuracy ==
    Fitted =>
        IF Len(y_test) < 2 THEN accuracy = Zero
        ELSE accuracy = Q(100 * Agreements(y_test, y_pred), Len(y_test) - 1)

\* The square of a band half-width, which is a rational or a pure surd.
SquareOf(x) == IF x.c = 0 THEN FMul(x, x) ELSE Q(x.c * x.c * x.rn, x.rd)

\* x <= y on non-negative rationals, the denominators reduced by their
\* common divisor before the cross-multiplication.
RatLeq(x, y) ==
    LET g == GCD(x.d, y.d) IN x.n * (y.d \div g) <= y.n * (x.d \div g)

\* The half-width above the prediction at step i of the returned forecast.
WidthAbove(i) ==
    FSub(pred_df.cols["Upper_Bound"][i], pred_df.cols["Predicted"][i])

\* C11: at every forecast step i the upper and the lower bound lie the same
\* distance from the prediction, that distance is 1.96 * residualStd *
\* sqrt(i/10) (compared by squares, the residual std being the population
\* standard deviation of the test residuals), it is never negative and it
\* never shrinks from one step to the next.
C11_BandHalfWidth ==
    phase = "done" =>
        \A i \in 1..prediction_days :
            /\ WidthAbove(i) =
                  FSub(pred_df.cols["Predicted"][i], pred_df.cols["Lower_Bound"][i])
            /\ WidthAbove(i).k = "num"
            /\ WidthAbove(i).n >= 0 /\ WidthAbove(i).c >= 0
            /\ SquareOf(WidthAbove(i)) =
                  FMul(FMul(ResidualVariance(y_test, y_pred),
                            Q(196 * 196, 100 * 100)),
                       Q(i, 10))
            /\ i > 1 => RatLeq(SquareOf(WidthAbove(i - 1)), SquareOf(WidthAbove(i)))

C11_Witness ==
    /\ phase = "done"
    /\ prediction_days >= 3
    /\ SquareOf(WidthAbove(1)).n > 0
    /\ ~RatLeq(SquareOf(WidthAbove(3)), SquareOf(WidthAbove(1)))

\* The first defined row of a column that has one.
FirstDefined(col) ==
    CHOOSE j \in 1..Len(col) :
        ~IsNaN(col[j]) /\ \A k \in 1..(j - 1) : IsNaN(col[k])

\* C12: in the frame calculate_technical_indicators returns, every cell the
\* indicator computation defined keeps its value, and every row of a column
\* before the column's first defined row holds that first defined value.
C12_BackfillPolicy ==
    [][("RSI" \notin Columns(df) /\ "RSI" \in Columns(df'))
          => LET pre == IndicatorsOf(df)
             IN \A c \in IndicatorColumns : \A i \in 1..NRows(df) :
                   IF ~IsNaN(pre[c][i]) THEN df'.cols[c][i] = pre[c][i]
                   ELSE (\E j \in (i + 1)..NRows(df) : ~IsNaN(pre[c][j])
                           /\ \A k \in 1..i : IsNaN(pre[c][k]))
                        => df'.cols[c][i] = pre[c][FirstDefined(pre[c])]]_vars

\* A returned frame whose first MA20 row is the value of row 20 and differs
\* from the close of the first bar and from the last MA20 row.
C12_Witness ==
    /\ HasIndicators
    /\ NRows(df) > MA20Window
    /\ IsRat(df.cols["MA20"][1])
    /\ df.cols["MA20"][1] = df.cols["MA20"][MA20Window]
    /\ df.cols["MA20"][1] # df.cols["MA20"][NRows(df)]
    /\ df.cols["MA20"][1] # df.cols["Close"][1]

\* C13: a Series that has been back-filled is left as it is by another
\* back-fill, whatever pattern of defined and undefined cells it started
\* from.
C13_BackfillIdempotent ==
    fill.count >= 1 => Bfill(fill.output) = fill.output

\* A Series filled twice in which the first fill changed a cell and left an
\* undefined cell at the end.
C13_Witness ==
    /\ fill.count = 2
    /\ fill.output # fill.input
    /\ \E i \in 1..Len(fill.output) : IsNaN(fill.output[i])

\* C14: for an input whose Close values are all defined, MACD and
\* Signal_Line as computed before the back-fill are defined at every row,
\* are 0 at the first row, and are the values the returned frame carries.
C14_MACDDefined ==
    (HasIndicators /\ phase = "idle"
        /\ \A i \in 1..NRows(df) : ~IsNaN(df.cols["Close"][i]))
    => LET macd == MACDOf(df.cols["Close"])
           signal == EwmMean(macd, EMASignal)
       IN /\ \A i \in 1..NRows(df) :
                /\ IsRat(macd[i]) /\ IsRat(signal[i])
                /\ df.cols["MACD"][i] = macd[i]
                /\ df.cols["Signal_Line"][i] = signal[i]
          /\ NRows(df) >= 1 => macd[1] = Zero /\ signal[1] = Zero

C14_Witness ==
    /\ HasIndicators
    /\ NRows(df) >= EMASlow
    /\ df.cols["MACD"][1] = Zero
    /\ df.cols["Signal_Line"][1] = Zero
    /\ ~IsZero(df.cols["MACD"][2])
    /\ ~IsZero(df.cols["Signal_Line"][NRows(df)])

Returned(loc) == loc.phase \in {"done", "failed"}

\* C15: whatever the other call is doing, no step changes the caller's
\* frame, a call that returns (or raises) hands back exactly what the same
\* call run alone on its arguments hands back, and two finished calls with
\* equal arguments have equal results.
C15_CallsIndependent ==
    [][/\ df' = df
       /\ \A c \in DOMAIN calls :
             (~Returned(calls[c]) /\ Returned(calls'[c]))
             => /\ ReturnValue(calls'[c]) =
                      ReturnValue(predict_stock_trend(
                          df, calls[c].prediction_days, calls[c].forest))
                /\ \A o \in DOMAIN calls :
                      (Returned(calls'[o])
                          /\ calls[o].prediction_days = calls[c].prediction_days)
                      => ReturnValue(calls'[o]) = ReturnValue(calls'[c])]_vars

\* One call has returned its forecast while the other, with the same
\* arguments, is in the middle of its forecast loop.
C15_Witness ==
    /\ DOMAIN calls = CallIds
    /\ calls[2].phase = "done"
    /\ calls[1].phase = "forecasting"
    /\ calls[1].prediction_days = MaxConcHorizon
    /\ calls[2].prediction_days = MaxConcHorizon
    /\ Len(calls[1].predictions) = 1

\* C16: a call whose history holds a Close of 0 and that has feature rows
\* to work on (so a zero lag value and the division by it are in play)
\* never ends in an error.
C16_DegeneracyNotFatal ==
    ((\E i \in 1..NRows(df) : IsZero(df.cols["Close"][i]))
        /\ NRows(features.X) > 0)
    => error = "none"

\* Every cell of the five price columns is undefined.
AllUndefined(frame) ==
    \A c \in RawColumns : \A i \in 1..NRows(frame) : IsNaN(frame.cols[c][i])

\* C17: for an input of undefined prices calculate_technical_indicators
\* returns, and the frame it returns has the rows of the input and an
\* undefined value in every cell of every indicator column.
C17_AllNaNInput ==
    (HasIndicators /\ NRows(df) > 0 /\ AllUndefined(df))
    => /\ df.index = FallbackFrame.index
       /\ \A c \in IndicatorColumns :
             /\ Len(df.cols[c]) = NRows(df)
             /\ \A i \in 1..NRows(df) : IsNaN(df.cols[c][i])

\* The fallback frame of get_stock_data after the indicators were added.
C17_Witness ==
    /\ HasIndicators
    /\ NRows(df) = FallbackRows
    /\ AllUndefined(df)
    /\ IsNaN(df.cols["RSI"][FallbackRows])
    /\ IsNaN(df.cols["ATR"][1])

\* The dates are unique and in strictly increasing order.
StrictlyIncreasing(index) ==
    \A i \in 1..(Len(index) - 1) : index[i] < index[i + 1]

\* C18: for a frame whose dates are not strictly increasing no indicator
\* frame is returned, and a predict_stock_trend call on it is over with
\* InvalidInputError before it has built any feature.
C18_MalformedRejected ==
    ~StrictlyIncreasing(df.index)
    => /\ ~HasIndicators
       /\ phase # "idle" => (phase = "failed" /\ error = "InvalidInputError")

\* C20: the frame get_stock_data hands over, before anything was computed
\* on it, has strictly increasing dates.
C20_ProviderDatesIncreasing ==
    (phase = "idle" /\ ~HasIndicators) => StrictlyIncreasing(df.index)

\* df holds the 200 constant bars of the scenario.
InScenario ==
    /\ NRows(df) = 200
    /\ \A i \in 1..NRows(df) :
          /\ \A c \in {"Open", "High", "Low", "Close"} : df.cols[c][i] = Q(100, 1)
          /\ df.cols["Volume"][i] = Q(1000, 1)

\* C19: on the 200 constant bars every row of the indicator frame has
\* MA20 = MA50 = 100, RSI = 100, ATR = 0 and both bands at 100; a forecast
\* on them does not fail, predicts within 1 of 100 at every step, and its
\* band is no narrower at the last step than at the first.
C19_ConstantScenario ==
    InScenario
    => /\ HasIndicators =>
             \A i \in 1..NRows(df) :
                /\ df.cols["MA20"][i] = Q(100, 1)
                /\ df.cols["MA50"][i] = Q(100, 1)
                /\ df.cols["RSI"][i] = Q(100, 1)
                /\ IsZero(df.cols["ATR"][i])
                /\ df.cols["Upper_Band"][i] = Q(100, 1)
                /\ df.cols["Lower_Band"][i] = Q(100, 1)
       /\ error = "none"
       /\ phase = "done" =>
             /\ \A j \in 1..prediction_days :
                   /\ FLeq(Q(99, 1), pred_df.cols["Predicted"][j])
                   /\ FLeq(pred_df.cols["Predicted"][j], Q(101, 1))
             /\ RatLeq(SquareOf(WidthAbove(1)), SquareOf(WidthAbove(prediction_days)))

\* A forecast step has just run.
Stepped == Len(predictions') = Len(predictions) + 1

\* C21: one forecast step moves lag_5 into lag_10, lag_3 into lag_5, lag_2
\* into lag_3 and lag_1 into lag_2, every moved value being the one held
\* before the step, and puts the prediction just made into lag_1.
C21_LagShift ==
    [][Stepped =>
        /\ last_row'["lag_10"] = last_row["lag_5"]
        /\ last_row'["lag_5"] = last_row["lag_3"]
        /\ last_row'["lag_3"] = last_row["lag_2"]
        /\ last_row'["lag_2"] = last_row["lag_1"]
        /\ last_row'["lag_1"] = predictions'[Len(predictions')]]_vars

\* A step has run on a row whose five lags all differed: the row now holds
\* the prediction and four of the old values, still all different.
C21_Witness ==
    /\ phase = "forecasting"
    /\ Len(predictions) = 1
    /\ \A j, k \in LagSet :
          j # k => last_row[LagName(j)] # last_row[LagName(k)]
    /\ last_row["lag_1"] = predictions[1]
    /\ last_row["lag_10"] = Q(5, 1)

\* The fields of the working row that are neither Close, a lag nor a return.
FrozenColumns == feature_columns \ ({"Close"} \cup LagColumns \cup ReturnColumns)

\* C22: at every point of the forecast walk, whatever the horizon, Open,
\* High, Low, Volume, MA20, MA50, RSI, MACD, Signal_Line, Upper_Band,
\* Lower_Band and ATR of the working row are those of the last row of the
\* feature matrix built from the history.
C22_FrozenFields ==
    Fitted =>
        \A c \in FrozenColumns :
            last_row[c] = features.X.cols[c][NRows(features.X)]

\* The walk has made two steps and moved Close away from the last row of
\* the feature matrix, while Open and MA20 are still that row's.
C22_Witness ==
    /\ Fitted
    /\ Len(predictions) >= 2
    /\ last_row["Close"] # features.X.cols["Close"][NRows(features.X)]
    /\ last_row["Open"] = features.X.cols["Open"][NRows(features.X)]
    /\ last_row["MA20"] = features.X.cols["MA20"][NRows(features.X)]
    /\ last_row["MA20"] # last_row["Close"]

\* C23: after a forecast step, for each k in {1, 2, 3, 5, 10}: where the
\* shifted lag_k is not zero, return_k is the new Close / lag_k - 1; where it
\* is zero, return_k is what it was before the step, and no division by the
\* zero has left an infinite or undefined value in it.
C23_ReturnsGuarded ==
    [][Stepped =>
        \A k \in LagSet :
            IF ~FEq(last_row'[LagName(k)], Zero)
            THEN last_row'[ReturnName(k)] =
                    FSub(FDiv(last_row'["Close"], last_row'[LagName(k)]),
                         Q(1, 1))
            ELSE /\ last_row'[ReturnName(k)] = last_row[ReturnName(k)]
                 /\ IsRat(last_row'[ReturnName(k)])]_vars

\* One step has run: lag_5 received a zero and return_5 still has its
\* value from before, while lag_2 is not zero and return_2 was recomputed
\* from a non-zero prediction.
C23_Witness ==
    /\ phase = "forecasting"
    /\ Len(predictions) = 1
    /\ ~FEq(predictions[1], Zero)
    /\ FEq(last_row["lag_5"], Zero)
    /\ last_row["return_5"] = Q(5, 100)
    /\ ~FEq(last_row["lag_2"], Zero)
    /\ last_row["return_2"] =
          FSub(FDiv(predictions[1], last_row["lag_2"]), Q(1, 1))
    /\ last_row["return_2"] # Q(2, 100)

\* Every OHLCV cell of the caller's frame is defined.
RawDefined ==
    \A c \in RawColumns : \A i \in 1..NRows(df) : ~IsNaN(df.cols[c][i])

\* C24: create_features over the indicator frame of n >= 11 bars with
\* defined OHLCV keeps exactly bars 11..n, in order: n - 10 rows of X and
\* of y.
C24_DropsEarliestTen ==
    (phase # "idle" /\ error # "KeyError" /\ NRows(df) >= 11 /\ RawDefined) =>
        /\ features.X.index = Slice(df.index, 11, NRows(df))
        /\ Len(features.y) = NRows(df) - 10

\* C25: predict_stock_trend on a frame that carries some of the indicator
\* columns and lacks others completes the frame instead of failing on the
\* missing column: the call gets as far as the feature matrix of the
\* completed frame, whose rows carry every feature column.
C25_PartialCompleted ==
    (phase # "idle" /\ "RSI" \in Columns(df)
        /\ ~(IndicatorColumns \subseteq Columns(df))) =>
            /\ error # "KeyError"
            /\ DOMAIN features.X.cols = feature_columns

\* C26: after every forecast step lag_1 and Close of the working row are
\* both the prediction just made, and return_1 is 0 whenever that
\* prediction is not zero.
C26_LagOneIsClose ==
    (phase = "forecasting" /\ Len(predictions) >= 1) =>
        LET next_pred == predictions[Len(predictions)]
        IN /\ last_row["lag_1"] = next_pred
           /\ last_row["Close"] = next_pred
           /\ ~FEq(next_pred, Zero) => last_row["return_1"] = Zero

\* The fourth step has run on a walk of differing predictions: the working
\* row holds the fourth one in lag_1 and Close, return_1 is 0, and
\* return_2 is not.
C26_Witness ==
    /\ phase = "forecasting"
    /\ Len(predictions) = 4
    /\ predictions[4] # predictions[3]
    /\ ~FEq(predictions[4], Zero)
    /\ last_row["Close"] = predictions[4]
    /\ last_row["return_1"] = Zero
    /\ ~FEq(last_row["return_2"], Zero)

\* C27: once five or more forecast steps have run, lag_1, lag_2, lag_3,
\* lag_5 and lag_10 hold the predictions of the last, second last, third
\* last, fourth last and fifth last step: lag_10 is the value of four steps
\* back, and no lag holds a close from before the walk.
C27_ShiftRegister ==
    (phase = "forecasting" /\ Len(predictions) >= Len(ConsistentLags)) =>
        \A j \in 1..Len(ConsistentLags) :
            last_row[LagName(ConsistentLags[j])] =
                predictions[Len(predictions) - j + 1]

\* Six steps have run and the last five predictions all differ; lag_10
\* holds the second prediction.
C27_Witness ==
    /\ phase = "forecasting"
    /\ Len(predictions) = 6
    /\ \A a, b \in 2..6 : a # b => predictions[a] # predictions[b]
    /\ last_row["lag_10"] = predictions[2]
    /\ last_row["lag_1"] = predictions[6]

\* C28: the target of every row of the feature matrix is that row's own
\* Close feature; the first forecast value is the forest's prediction on
\* the last row of the feature matrix as create_features built it, and the
\* Close of that row is the last close of the history.
C28_TargetIsOwnClose ==
    /\ phase \in {"features", "forecasting", "done"} =>
          features.y = features.X.cols["Close"]
    /\ (Fitted /\ Len(predictions) >= 1) =>
          LET X == features.X
          IN /\ predictions[1] = PredictRow(model, RowOf(X, NRows(X)))
             /\ X.cols["Close"][NRows(X)] = df.cols["Close"][NRows(df)]

\* A forecast on a series whose close moved on the last bar: the last
\* target is that last close, and the working row has since moved away
\* from the row the first forecast value was predicted from.
C28_Witness ==
    /\ Fitted
    /\ Len(predictions) >= 2
    /\ NRows(features.X) >= 10
    /\ df.cols["Close"][NRows(df)] # df.cols["Close"][NRows(df) - 1]
    /\ features.y[Len(features.y)] = df.cols["Close"][NRows(df)]
    /\ features.y[Len(features.y) - 1] = df.cols["Close"][NRows(df) - 1]
    /\ last_row["Close"] # features.X.cols["Close"][NRows(features.X)]
    /\ predictions[1] = PredictRow(model, RowOf(features.X, NRows(features.X)))

\* No two price rows have the same stock and date.
AtMostOnePerKey(prices) ==
    \A i, j \in 1..Len(prices) :
        (prices[i].stock_id = prices[j].stock_id /\ prices[i].date = prices[j].date)
            => i = j

\* The OHLCV values the table holds for a stock and a date.
ValuesAt(prices, stock_id, date) ==
    {<<r.open_price, r.high_price, r.low_price, r.close_price, r.volume>> :
        r \in {prices[i] : i \in {i \in 1..Len(prices) :
                    prices[i].stock_id = stock_id /\ prices[i].date = date}}}

\* The last of the first n rows of the frame that carries the date, or 0.
LastIn(frame, n, date) ==
    LET hits == {j \in 1..n : frame[j].date = date}
    IN IF hits = {} THEN 0 ELSE CHOOSE j \in hits : \A i \in hits : i <= j

\* after is before with the first n rows of the frame laid over it: for the
\* saved stock, a date carried by one of these rows has exactly the values
\* of the last of them (an undefined cell stored as 0.0); every other
\* stock and date has what it had.
Overlaid(before, stock_id, frame, n, after) ==
    \A s \in {Stocks[x] : x \in DOMAIN Stocks} : \A d \in 1..LastDate :
        LET j == LastIn(frame, n, d)
        IN ValuesAt(after, s, d) =
              IF s = stock_id /\ j # 0
              THEN LET p == StockPrice(s, frame[j])
                   IN {<<p.open_price, p.high_price, p.low_price,
                         p.close_price, p.volume>>}
              ELSE ValuesAt(before, s, d)

\* C29: a step of save_stock_prices leaves at most one price row per stock
\* and date if there was at most one before; when a call returns True, each
\* date its frame carried has, for the saved stock, exactly one row with the
\* values of the last frame row of that date, and every other row of the
\* table is as it was before the call, so that after a sequence of calls a
\* row holds the values of the latest save of its date; a call for a symbol
\* that is not in stocks returns False and leaves the table as it was.
C29_Upsert ==
    [][/\ AtMostOnePerKey(db.prices) => AtMostOnePerKey(db'.prices)
       /\ (db.status = "running" /\ db'.result = "True") =>
             Overlaid(db.call.before, db.call.stock_id, db.call.frame,
                      Len(db.call.frame), db'.prices)
       /\ (db.status = "idle" /\ db'.saves = db.saves + 1
                /\ db'.call.symbol \notin DOMAIN Stocks) =>
             /\ db'.status = "returned"
             /\ db'.result = "False"
             /\ db'.prices = db.prices]_vars

\* The second save has returned True; it carried date 1 twice, first with
\* an undefined close, and the table has one row for that stock and date,
\* with the close of the second frame row, next to the untouched row of
\* the other stock.
C29_Witness ==
    /\ db.status = "returned"
    /\ db.result = "True"
    /\ db.saves = 2
    /\ Len(db.call.frame) = 2
    /\ db.call.frame[1].date = 1
    /\ db.call.frame[2].date = 1
    /\ IsNaN(db.call.frame[1].Close)
    /\ Len(db.call.before) = 2
    /\ Len(db.prices) = 2
    /\ db.prices[1] = OldPrice(2)
    /\ db.prices[2].close_price = Q(120, 1)

\* C30: when row k of the frame fails, save_stock_prices returns False and
\* the table is what it was before the call with the first k - 1 rows of
\* the frame laid over it: these stay committed, and row k and the rows
\* after it are not written.
C30_NotAtomic ==
    [][(db.status = "running" /\ db'.result = "False") =>
          Overlaid(db.call.before, db.call.stock_id, db.call.frame,
                   db.call.k - 1, db'.prices)]_vars

\* A save failed at its second row: the first row is in the table, which
\* was empty before, and the date of the second row is not.
C30_Witness ==
    /\ db.status = "returned"
    /\ db.result = "False"
    /\ db.call.stock_id # 0
    /\ db.call.k = 2
    /\ db.call.before = <<>>
    /\ db.call.frame[1].date = 1
    /\ db.call.frame[2].date = 2
    /\ Len(db.prices) = 1
    /\ db.prices[1].date = 1
    /\ db.prices[1].close_price = db.call.frame[1].Close

=============================================================================
